---- MODULE Spec2Model ----
(***************************************************************************)
(* Model of pgxscan: the tag position resolver (getDBTagPositions), the    *)
(* single-row scan (QueryRow) and the multi-row scan (Rows with            *)
(* scanToExistingSlice / scanToNewSlice).                                  *)
(*                                                                         *)
(* A destination type is described the way package reflect presents it: a  *)
(* struct type is an ordered list of fields, each with a name, the class   *)
(* of the first byte of the name, an embedded flag, the Kind of its type,  *)
(* its db tag and the type it holds or points to.  A value is a tree that  *)
(* mirrors the type.  Field paths are 0-based, as reflect's index lists.   *)
(* The driver (pgx.Rows) is an input: its columns, its rows, the place     *)
(* where the iteration or a Scan fails.                                    *)
(***************************************************************************)
EXTENDS Integers, Sequences, FiniteSets, TLC

(***************************************************************************)
(* Bounds of the model.                                                    *)
(***************************************************************************)
MaxCols == 2
MaxRows == 2
MaxLen == 2

(***************************************************************************)
(* Errors.  One record shape for every error value the package returns;    *)
(* kind "nil" is the nil error and kind "panic" is a run-time panic of     *)
(* package reflect that leaves the call without a returned value.          *)
(***************************************************************************)
Err(kind, name, cols, vtype, idx) ==
    [kind |-> kind, name |-> name, cols |-> cols, vtype |-> vtype, idx |-> idx]

Plain(kind) == Err(kind, "", <<>>, <<>>, 0)

NoErr == Plain("nil")

Panic == Plain("panic")

ErrQueryColumnsTagsMismtach == Plain("ColumnsTagsMismatch")

ErrUnexportedProperty(propertyName) == Err("UnexportedProperty", propertyName, <<>>, <<>>, 0)

ErrQueryReturnedExtraColumns(valueType, columns) ==
    Err("ExtraColumns", "", columns, valueType, 0)

ErrNoRows == Plain("ErrNoRows")

ErrMoreThanOneRow == Plain("MoreThanOneRow")

ErrMoreRowsThanSlice == Plain("MoreRowsThanSliceLength")

ErrMissingColumn(column) == Err("ColumnMissingFromStruct", column, <<>>, <<>>, 0)

ErrNoAddr == Plain("NoAddress")

ErrNoInterface == Plain("NoInterface")

ErrUnsetTag(i, typeName) == Err("UnsetTag", typeName, <<>>, <<>>, i)

ErrNotStruct == Plain("ReflectTypeNotStruct")

(***************************************************************************)
(* Types and fields, as reflect.Type and reflect.StructField show them.    *)
(***************************************************************************)
StructType(name, fields) == [kind |-> "Struct", name |-> name, fields |-> fields]

ScalarType == [kind |-> "Scalar", name |-> "string", fields |-> <<>>]

\* first: the class of the first byte of the name ("upper", "lower", "other")
Field(name, first, embedded, kind, tag, elem) ==
    [name |-> name, first |-> first, embedded |-> embedded,
     kind |-> kind, tag |-> tag, elem |-> elem]

IsExported(field) == field.first = "upper"

(***************************************************************************)
(* Values.  A nil pointer is Nil; a non-nil pointer is shown by the value  *)
(* it points to.                                                           *)
(***************************************************************************)
Nil == [k |-> "nil", v |-> 0, f |-> <<>>]

Val(x) == [k |-> "val", v |-> x, f |-> <<>>]

StructVal(fs) == [k |-> "struct", v |-> 0, f |-> fs]

RECURSIVE Zero(_)
Zero(t) ==
    IF t.kind = "Struct"
    THEN StructVal([i \in 1..Len(t.fields) |->
            IF t.fields[i].kind = "Ptr" THEN Nil ELSE Zero(t.fields[i].elem)])
    ELSE Val(0)

(***************************************************************************)
(* Maps from tag to field path.                                            *)
(***************************************************************************)
EmptyMap == [t \in {} |-> <<>>]

MapPut(m, key, path) ==
    [t \in (DOMAIN m) \cup {key} |-> IF t = key THEN path ELSE m[t]]

\* for t, ni := range nestedTags { tagPositions[t] = append([]int{i}, ni...) }
MapMergeNested(m, i, nested) ==
    [t \in (DOMAIN m) \cup (DOMAIN nested) |->
        IF t \in DOMAIN nested THEN <<i>> \o nested[t] ELSE m[t]]

(***************************************************************************)
(* getDBTagPositions: the loop over the fields of rt, from field i on,     *)
(* with the map built so far.                                              *)
(***************************************************************************)
RECURSIVE getDBTagPositions(_), TagFields(_, _, _), TagFields_PointerAlwaysRecursed(_, _, _),
          TagFields_NestedErrorSkipped(_, _, _)

\* TagFields going on with the next field when the resolution of a nested struct
\* has failed
TagFields_NestedErrorSkipped(rt, i, tagPositions) ==
    IF i >= Len(rt.fields) THEN [err |-> NoErr, map |-> tagPositions]
    ELSE LET field == rt.fields[i + 1]
             tag == field.tag
             recurse == field.kind = "Struct" \/ (field.kind = "Ptr" /\ field.elem.kind = "Struct")
             nested == getDBTagPositions(field.elem)
         IN  IF field.kind \in {"Struct", "Ptr"} /\ tag = "-"
                  THEN TagFields_NestedErrorSkipped(rt, i + 1, tagPositions)
             ELSE IF field.kind \in {"Struct", "Ptr"} /\ tag # ""
                  THEN TagFields_NestedErrorSkipped(rt, i + 1, MapPut(tagPositions, tag, <<i>>))
             ELSE IF recurse
                  THEN IF nested.err # NoErr
                       THEN TagFields_NestedErrorSkipped(rt, i + 1, tagPositions)
                       ELSE TagFields_NestedErrorSkipped(rt, i + 1,
                                MapMergeNested(tagPositions, i, nested.map))
             ELSE IF tag = "" THEN [err |-> ErrUnsetTag(i, rt.name), map |-> EmptyMap]
             ELSE IF tag = "-" THEN TagFields_NestedErrorSkipped(rt, i + 1, tagPositions)
             ELSE TagFields_NestedErrorSkipped(rt, i + 1, MapPut(tagPositions, tag, <<i>>))

\* TagFields with the pointer case that looks at no tag before it recurses into
\* a pointer to a struct
TagFields_PointerAlwaysRecursed(rt, i, tagPositions) ==
    IF i >= Len(rt.fields) THEN [err |-> NoErr, map |-> tagPositions]
    ELSE LET field == rt.fields[i + 1]
             tag == field.tag
             recurse == field.kind = "Struct" \/ (field.kind = "Ptr" /\ field.elem.kind = "Struct")
             nested == getDBTagPositions(field.elem)
         IN  IF field.kind = "Struct" /\ tag = "-"
                  THEN TagFields_PointerAlwaysRecursed(rt, i + 1, tagPositions)
             ELSE IF field.kind = "Struct" /\ tag # ""
                  THEN TagFields_PointerAlwaysRecursed(rt, i + 1, MapPut(tagPositions, tag, <<i>>))
             ELSE IF recurse
                  THEN IF nested.err # NoErr THEN [err |-> nested.err, map |-> EmptyMap]
                       ELSE TagFields_PointerAlwaysRecursed(rt, i + 1,
                                MapMergeNested(tagPositions, i, nested.map))
             ELSE IF tag = "" THEN [err |-> ErrUnsetTag(i, rt.name), map |-> EmptyMap]
             ELSE IF tag = "-" THEN TagFields_PointerAlwaysRecursed(rt, i + 1, tagPositions)
             ELSE TagFields_PointerAlwaysRecursed(rt, i + 1, MapPut(tagPositions, tag, <<i>>))

TagFields(rt, i, tagPositions) ==
    IF i >= Len(rt.fields) THEN [err |-> NoErr, map |-> tagPositions]
    ELSE LET field == rt.fields[i + 1]
             tag == field.tag
             recurse == field.kind = "Struct" \/ (field.kind = "Ptr" /\ field.elem.kind = "Struct")
             nested == getDBTagPositions(field.elem)
         IN  IF field.kind \in {"Struct", "Ptr"} /\ tag = "-"
                  THEN TagFields(rt, i + 1, tagPositions)
             ELSE IF field.kind \in {"Struct", "Ptr"} /\ tag # ""
                  THEN TagFields(rt, i + 1, MapPut(tagPositions, tag, <<i>>))
             ELSE IF recurse
                  THEN IF nested.err # NoErr THEN [err |-> nested.err, map |-> EmptyMap]
                       ELSE TagFields(rt, i + 1, MapMergeNested(tagPositions, i, nested.map))
             ELSE IF tag = "" THEN [err |-> ErrUnsetTag(i, rt.name), map |-> EmptyMap]
             ELSE IF tag = "-" THEN TagFields(rt, i + 1, tagPositions)
             ELSE TagFields(rt, i + 1, MapPut(tagPositions, tag, <<i>>))

getDBTagPositions(rt) ==
    IF rt.kind # "Struct" THEN [err |-> ErrNotStruct, map |-> EmptyMap]
    ELSE TagFields(rt, 0, EmptyMap)

(***************************************************************************)
(* Package reflect, as far as the scans use it.                            *)
(***************************************************************************)
RECURSIVE GetAt(_, _), SetAt(_, _, _), FieldByIndexOK(_, _), ReadOnly(_, _, _, _)

\* the value found at a location of the value tree
GetAt(v, loc) ==
    IF loc = <<>> THEN v ELSE GetAt(v.f[loc[1] + 1], Tail(loc))

\* the value tree with the value at a location replaced
SetAt(v, loc, x) ==
    IF loc = <<>> THEN x
    ELSE StructVal([v.f EXCEPT ![loc[1] + 1] = SetAt(@, Tail(loc), x)])

\* Value.FieldByIndex(index) returns: it panics on an invalid Value and on a
\* nil pointer to a struct met after the first step
FieldByIndexOK(v, index) ==
    IF v.k # "struct" THEN FALSE
    ELSE IF Len(index) = 1 THEN TRUE
    ELSE FieldByIndexOK(v.f[index[1] + 1], Tail(index))

\* flagRO of Value.FieldByIndex(index) from step i on: Field keeps flagStickyRO,
\* clears flagEmbedRO, and an unexported field sets flagEmbedRO when it is
\* embedded and flagStickyRO when it is not; Elem and Addr keep both
ReadOnly(t, index, i, sticky) ==
    LET field == t.fields[index[i] + 1]
        st == sticky \/ (~IsExported(field) /\ ~field.embedded)
        em == ~IsExported(field) /\ field.embedded
    IN  IF i = Len(index) THEN st \/ em
        ELSE ReadOnly(field.elem, index, i + 1, st)

\* fieldPtr.CanInterface()
CanInterface(t, index) == ~ReadOnly(t, index, 1, FALSE)

\* Type.FieldByIndex(index)
RECURSIVE TypeFieldByIndex(_, _)
TypeFieldByIndex(t, index) ==
    IF Len(index) = 1 THEN t.fields[index[1] + 1]
    ELSE TypeFieldByIndex(t.fields[index[1] + 1].elem, Tail(index))

\* unicode.IsLower(rune(propertyName[0]))
IsLowerFirst(field) == field.first = "lower"

(***************************************************************************)
(* The driver's result (pgx.Rows).  It has nrows rows; with iterFail >= 0  *)
(* the iteration breaks after iterFail rows (Next answers false and Err    *)
(* is set); the Scan of row scanRow fails at column scanCol after writing  *)
(* the columns before it.                                                  *)
(***************************************************************************)
Delivered(res) == IF res.iterFail >= 0 THEN res.iterFail ELSE res.nrows

\* the n-th call of rows.Next()
RowsNext(res, n) == n <= Delivered(res)

\* rows.Err() once Next has answered false
RowsErr(res) == IF res.iterFail >= 0 THEN Plain("IterationError") ELSE NoErr

\* the value the result holds in row r (from 1), column c (from 1)
Cell(r, c) == 10 * r + c

\* rows.Scan(fieldPtrs...) of row r: column c is stored through fieldPtrs[c];
\* an empty target is the discard target &rejectedValues
RECURSIVE StoreColumns(_, _, _, _, _)
StoreColumns(v, fieldPtrs, r, c, upto) ==
    IF c > upto THEN v
    ELSE StoreColumns(IF fieldPtrs[c] = <<>> THEN v ELSE SetAt(v, fieldPtrs[c], Val(Cell(r, c))),
                      fieldPtrs, r, c + 1, upto)

ScanFails(res, r) == res.scanRow = r

RowsScan(res, v, fieldPtrs, r) ==
    IF ScanFails(res, r)
    THEN [err |-> Plain("ScanError"), val |-> StoreColumns(v, fieldPtrs, r, 1, res.scanCol - 1)]
    ELSE [err |-> NoErr, val |-> StoreColumns(v, fieldPtrs, r, 1, Len(fieldPtrs))]

(***************************************************************************)
(* QueryRow.                                                               *)
(***************************************************************************)
\* innerValue.CanAddr(), fieldVal.CanAddr(): every Value the scans reach comes
\* from rv.Elem(), slice.Index(i) or reflect.New(rt).Elem() through Field and
\* Elem, all of which keep flagAddr
CanAddr(v) == TRUE

\* fmt.Sprintf("%T", input) of a pointer to the struct type rt
TypeNameOfPointer(rt) == <<"*", rt.name>>

\* The check of the path to a nested field ("no nil pointers"), from step i on.
\* cur is currentStruct: where it lies in the destination (loc), whether it is
\* the pointer itself (ptr), the type there once dereferenced, and its
\* flagStickyRO.  Set panics on a Value obtained through an unexported field.
RECURSIVE WalkPath(_, _, _, _)
WalkPath(structVal, fieldPos, i, cur) ==
    IF i > Len(fieldPos) - 2 THEN [err |-> NoErr, val |-> structVal]
    ELSE LET cs == [cur EXCEPT !.ptr = FALSE]
             pos == fieldPos[i + 1]
         IN  IF structVal.k # "struct" \/ cs.type.kind # "Struct" \/ pos >= Len(cs.type.fields)
             THEN [err |-> Panic, val |-> structVal]
             ELSE LET field == cs.type.fields[pos + 1]
                      loc == cs.loc \o <<pos>>
                      innerValue == GetAt(structVal, loc)
                      ro == cs.sticky \/ ~IsExported(field)
                  IN  IF field.kind # "Ptr" THEN WalkPath(structVal, fieldPos, i + 1, cs)
                      ELSE IF ~CanAddr(innerValue) THEN [err |-> ErrNoAddr, val |-> structVal]
                      ELSE IF innerValue = Nil /\ ro THEN [err |-> Panic, val |-> structVal]
                      ELSE WalkPath(IF innerValue = Nil
                                       THEN SetAt(structVal, loc, Zero(field.elem))
                                       ELSE structVal,
                                    fieldPos, i + 1,
                                    [loc |-> loc, ptr |-> TRUE, type |-> field.elem,
                                     sticky |-> cs.sticky \/ (~IsExported(field) /\ ~field.embedded)])

RootOf(rt) == [loc |-> <<>>, ptr |-> FALSE, type |-> rt, sticky |-> FALSE]

\* The loop over the headers, from column ii (from 1) on: the destination with
\* the pointers allocated so far, the targets bound so far and the columns of
\* extracolumnsError (empty while it is nil).
RECURSIVE QueryRowBind(_, _, _, _, _, _, _)
QueryRowBind(rt, dbTagPos, headers, ii, structVal, fieldPtrs, extra) ==
    IF ii > Len(headers)
    THEN [err |-> NoErr, val |-> structVal, ptrs |-> fieldPtrs, extra |-> extra]
    ELSE IF headers[ii] \notin DOMAIN dbTagPos
    THEN QueryRowBind(rt, dbTagPos, headers, ii + 1, structVal,
                      Append(fieldPtrs, <<>>), Append(extra, headers[ii]))
    ELSE LET fieldPos == dbTagPos[headers[ii]]
             walked == IF Len(fieldPos) > 1 THEN WalkPath(structVal, fieldPos, 0, RootOf(rt))
                       ELSE [err |-> NoErr, val |-> structVal]
             stop(e) == [err |-> e, val |-> walked.val, ptrs |-> fieldPtrs, extra |-> extra]
         IN  IF walked.err # NoErr THEN stop(walked.err)
             ELSE IF ~FieldByIndexOK(walked.val, fieldPos) THEN stop(Panic)
             ELSE IF ~CanAddr(walked.val) THEN stop(ErrNoAddr)
             ELSE IF ~CanInterface(rt, fieldPos)
                  THEN IF IsLowerFirst(TypeFieldByIndex(rt, fieldPos))
                       THEN stop(ErrUnexportedProperty(TypeFieldByIndex(rt, fieldPos).name))
                       ELSE stop(ErrNoInterface)
             ELSE QueryRowBind(rt, dbTagPos, headers, ii + 1, walked.val,
                               Append(fieldPtrs, fieldPos), extra)

\* What a call leaves behind: the returned error, the destination, the step
\* the call ended in, whether a result was acquired and whether it was closed.
Outcome(e, d, stage, acquired, closed) ==
    [err |-> e, dest |-> d, stage |-> stage, acquired |-> acquired, closed |-> closed]

\* QueryRowFirstRow with the column count compared before extracolumnsError is
\* looked at
QueryRowFirstRow_CountBeforeExtra(rt, dbTagPos, dest, res) ==
    LET bound == QueryRowBind(rt, dbTagPos, res.cols, 1, dest, <<>>, <<>>)
        scan == RowsScan(res, bound.val, bound.ptrs, 1)
    IN  IF bound.err # NoErr THEN Outcome(bound.err, bound.val, "bind", TRUE, TRUE)
        ELSE IF scan.err # NoErr THEN Outcome(scan.err, scan.val, "scan", TRUE, TRUE)
        ELSE IF RowsNext(res, 2) THEN Outcome(ErrMoreThanOneRow, scan.val, "next", TRUE, TRUE)
        ELSE IF Cardinality(DOMAIN dbTagPos) # Len(res.cols)
             THEN Outcome(ErrQueryColumnsTagsMismtach, scan.val, "count", TRUE, TRUE)
        ELSE IF bound.extra # <<>>
             THEN Outcome(ErrQueryReturnedExtraColumns(TypeNameOfPointer(rt), bound.extra),
                          scan.val, "extra", TRUE, TRUE)
        ELSE Outcome(NoErr, scan.val, "end", TRUE, TRUE)

\* QueryRowFirstRow with extracolumnsError returned before the second
\* rows.Next()
QueryRowFirstRow_ExtraBeforeNext(rt, dbTagPos, dest, res) ==
    LET bound == QueryRowBind(rt, dbTagPos, res.cols, 1, dest, <<>>, <<>>)
        scan == RowsScan(res, bound.val, bound.ptrs, 1)
    IN  IF bound.err # NoErr THEN Outcome(bound.err, bound.val, "bind", TRUE, TRUE)
        ELSE IF scan.err # NoErr THEN Outcome(scan.err, scan.val, "scan", TRUE, TRUE)
        ELSE IF bound.extra # <<>>
             THEN Outcome(ErrQueryReturnedExtraColumns(TypeNameOfPointer(rt), bound.extra),
                          scan.val, "extra", TRUE, TRUE)
        ELSE IF RowsNext(res, 2) THEN Outcome(ErrMoreThanOneRow, scan.val, "next", TRUE, TRUE)
        ELSE IF Cardinality(DOMAIN dbTagPos) # Len(res.cols)
             THEN Outcome(ErrQueryColumnsTagsMismtach, scan.val, "count", TRUE, TRUE)
        ELSE Outcome(NoErr, scan.val, "end", TRUE, TRUE)

\* the part of QueryRow after the first rows.Next() answered true
QueryRowFirstRow(rt, dbTagPos, dest, res) ==
    LET bound == QueryRowBind(rt, dbTagPos, res.cols, 1, dest, <<>>, <<>>)
        scan == RowsScan(res, bound.val, bound.ptrs, 1)
    IN  IF bound.err # NoErr THEN Outcome(bound.err, bound.val, "bind", TRUE, TRUE)
        ELSE IF scan.err # NoErr THEN Outcome(scan.err, scan.val, "scan", TRUE, TRUE)
        ELSE IF RowsNext(res, 2) THEN Outcome(ErrMoreThanOneRow, scan.val, "next", TRUE, TRUE)
        ELSE IF bound.extra # <<>>
             THEN Outcome(ErrQueryReturnedExtraColumns(TypeNameOfPointer(rt), bound.extra),
                          scan.val, "extra", TRUE, TRUE)
        ELSE IF Cardinality(DOMAIN dbTagPos) # Len(res.cols)
             THEN Outcome(ErrQueryColumnsTagsMismtach, scan.val, "count", TRUE, TRUE)
        ELSE Outcome(NoErr, scan.val, "end", TRUE, TRUE)

\* QueryRow without the check of rows.Err() when there is no first row
QueryRow_NoRowsUnchecked(input, dest, res) ==
    IF input.kind = "Invalid"
    THEN Outcome(Plain("InputInvalid"), dest, "input", FALSE, FALSE)
    ELSE IF input.kind # "Ptr"
    THEN Outcome(Plain("InputNotPointer"), dest, "input", FALSE, FALSE)
    ELSE IF input.elem.kind # "Struct"
    THEN Outcome(Plain("InputNotPointerToStruct"), dest, "input", FALSE, FALSE)
    ELSE LET tags == getDBTagPositions(input.elem)
         IN  IF tags.err # NoErr THEN Outcome(tags.err, dest, "tags", FALSE, FALSE)
             ELSE IF res.queryErr THEN Outcome(Plain("QueryError"), dest, "query", FALSE, FALSE)
             ELSE IF ~RowsNext(res, 1) THEN Outcome(ErrNoRows, dest, "norows", TRUE, TRUE)
             ELSE QueryRowFirstRow(input.elem, tags.map, dest, res)

QueryRow(input, dest, res) ==
    IF input.kind = "Invalid"
    THEN Outcome(Plain("InputInvalid"), dest, "input", FALSE, FALSE)
    ELSE IF input.kind # "Ptr"
    THEN Outcome(Plain("InputNotPointer"), dest, "input", FALSE, FALSE)
    ELSE IF input.elem.kind # "Struct"
    THEN Outcome(Plain("InputNotPointerToStruct"), dest, "input", FALSE, FALSE)
    ELSE LET tags == getDBTagPositions(input.elem)
         IN  IF tags.err # NoErr THEN Outcome(tags.err, dest, "tags", FALSE, FALSE)
             ELSE IF res.queryErr THEN Outcome(Plain("QueryError"), dest, "query", FALSE, FALSE)
             ELSE IF ~RowsNext(res, 1)
                  THEN IF RowsErr(res) # NoErr
                       THEN Outcome(RowsErr(res), dest, "norows", TRUE, TRUE)
                       ELSE Outcome(ErrNoRows, dest, "norows", TRUE, TRUE)
             ELSE QueryRowFirstRow(input.elem, tags.map, dest, res)

(***************************************************************************)
(* Rows.                                                                   *)
(***************************************************************************)
SliceVal(isNil, elems) == [k |-> IF isNil THEN "nilslice" ELSE "slice", v |-> 0, f |-> elems]

\* RowsBind with the tolerance of QueryRow: a column without a field is bound
\* to a discard target
RECURSIVE RowsBind_SkipsMissing(_, _, _, _, _, _)
RowsBind_SkipsMissing(rt, dbTagPos, headers, ii, structVal, fieldPtrs) ==
    IF ii > Len(headers) THEN [err |-> NoErr, ptrs |-> fieldPtrs]
    ELSE IF headers[ii] \notin DOMAIN dbTagPos
    THEN RowsBind_SkipsMissing(rt, dbTagPos, headers, ii + 1, structVal, Append(fieldPtrs, <<>>))
    ELSE LET fieldPos == dbTagPos[headers[ii]]
         IN  IF ~FieldByIndexOK(structVal, fieldPos) THEN [err |-> Panic, ptrs |-> fieldPtrs]
             ELSE IF ~CanAddr(structVal) THEN [err |-> ErrNoAddr, ptrs |-> fieldPtrs]
             ELSE IF ~CanInterface(rt, fieldPos) THEN [err |-> ErrNoInterface, ptrs |-> fieldPtrs]
             ELSE RowsBind_SkipsMissing(rt, dbTagPos, headers, ii + 1, structVal,
                                        Append(fieldPtrs, fieldPos))

\* The loop over the headers of scanToExistingSlice and scanToNewSlice, from
\* column ii (from 1) on, for the element structVal.
RECURSIVE RowsBind(_, _, _, _, _, _)
RowsBind(rt, dbTagPos, headers, ii, structVal, fieldPtrs) ==
    IF ii > Len(headers) THEN [err |-> NoErr, ptrs |-> fieldPtrs]
    ELSE IF headers[ii] \notin DOMAIN dbTagPos
    THEN [err |-> ErrMissingColumn(headers[ii]), ptrs |-> fieldPtrs]
    ELSE LET fieldPos == dbTagPos[headers[ii]]
         IN  IF ~FieldByIndexOK(structVal, fieldPos) THEN [err |-> Panic, ptrs |-> fieldPtrs]
             ELSE IF ~CanAddr(structVal) THEN [err |-> ErrNoAddr, ptrs |-> fieldPtrs]
             ELSE IF ~CanInterface(rt, fieldPos) THEN [err |-> ErrNoInterface, ptrs |-> fieldPtrs]
             ELSE RowsBind(rt, dbTagPos, headers, ii + 1, structVal, Append(fieldPtrs, fieldPos))

\* ExistingLoop with the length check off by one (i >= sliceLen-1)
RECURSIVE ExistingLoop_EarlyLength(_, _, _, _, _)
ExistingLoop_EarlyLength(rt, dbTagPos, res, elems, i) ==
    IF i >= Len(elems) - 1 THEN [err |-> ErrMoreRowsThanSlice, elems |-> elems, stage |-> "length"]
    ELSE LET bound == RowsBind(rt, dbTagPos, res.cols, 1, elems[i + 1], <<>>)
             scan == RowsScan(res, elems[i + 1], bound.ptrs, i + 1)
             stored == [elems EXCEPT ![i + 1] = scan.val]
         IN  IF bound.err # NoErr THEN [err |-> bound.err, elems |-> elems, stage |-> "bind"]
             ELSE IF scan.err # NoErr THEN [err |-> scan.err, elems |-> stored, stage |-> "scan"]
             ELSE IF ~RowsNext(res, i + 2) THEN [err |-> NoErr, elems |-> stored, stage |-> "end"]
             ELSE ExistingLoop_EarlyLength(rt, dbTagPos, res, stored, i + 1)

\* the for loop of scanToExistingSlice, from index i (from 0) on
RECURSIVE ExistingLoop(_, _, _, _, _)
ExistingLoop(rt, dbTagPos, res, elems, i) ==
    IF i > Len(elems) - 1 THEN [err |-> ErrMoreRowsThanSlice, elems |-> elems, stage |-> "length"]
    ELSE LET bound == RowsBind(rt, dbTagPos, res.cols, 1, elems[i + 1], <<>>)
             scan == RowsScan(res, elems[i + 1], bound.ptrs, i + 1)
             stored == [elems EXCEPT ![i + 1] = scan.val]
         IN  IF bound.err # NoErr THEN [err |-> bound.err, elems |-> elems, stage |-> "bind"]
             ELSE IF scan.err # NoErr THEN [err |-> scan.err, elems |-> stored, stage |-> "scan"]
             ELSE IF ~RowsNext(res, i + 2) THEN [err |-> NoErr, elems |-> stored, stage |-> "end"]
             ELSE ExistingLoop(rt, dbTagPos, res, stored, i + 1)

scanToExistingSlice(rt, slice, dbTagPos, res) ==
    IF ~RowsNext(res, 1)
    THEN [err |-> RowsErr(res), val |-> slice, stage |-> "norows"]
    ELSE LET loop == ExistingLoop(rt, dbTagPos, res, slice.f, 0)
             filled == [slice EXCEPT !.f = loop.elems]
         IN  IF loop.err # NoErr THEN [err |-> loop.err, val |-> filled, stage |-> loop.stage]
             ELSE IF RowsErr(res) # NoErr THEN [err |-> RowsErr(res), val |-> filled, stage |-> "err"]
             ELSE IF Cardinality(DOMAIN dbTagPos) # Len(res.cols)
                  THEN [err |-> ErrQueryColumnsTagsMismtach, val |-> filled, stage |-> "count"]
             ELSE [err |-> NoErr, val |-> filled, stage |-> "end"]

\* the for loop of scanToNewSlice, from index i (from 0) on
RECURSIVE NewLoop(_, _, _, _, _)
NewLoop(rt, dbTagPos, res, outputSlice, i) ==
    LET outputStruct == Zero(rt)
        bound == RowsBind(rt, dbTagPos, res.cols, 1, outputStruct, <<>>)
        scan == RowsScan(res, outputStruct, bound.ptrs, i + 1)
        appended == Append(outputSlice, scan.val)
    IN  IF bound.err # NoErr THEN [err |-> bound.err, elems |-> outputSlice, stage |-> "bind"]
        ELSE IF scan.err # NoErr THEN [err |-> scan.err, elems |-> outputSlice, stage |-> "scan"]
        ELSE IF ~RowsNext(res, i + 2) THEN [err |-> NoErr, elems |-> appended, stage |-> "end"]
        ELSE NewLoop(rt, dbTagPos, res, appended, i + 1)

\* scanToNewSlice setting the destination to the new empty slice when there is
\* no row
scanToNewSlice_ResetsEmpty(rt, slice, dbTagPos, res) ==
    IF ~RowsNext(res, 1)
    THEN [err |-> RowsErr(res), val |-> SliceVal(FALSE, <<>>), stage |-> "norows"]
    ELSE LET loop == NewLoop(rt, dbTagPos, res, <<>>, 0)
             set == SliceVal(FALSE, loop.elems)
         IN  IF loop.err # NoErr THEN [err |-> loop.err, val |-> slice, stage |-> loop.stage]
             ELSE IF RowsErr(res) # NoErr THEN [err |-> RowsErr(res), val |-> set, stage |-> "err"]
             ELSE IF Cardinality(DOMAIN dbTagPos) # Len(res.cols)
                  THEN [err |-> ErrQueryColumnsTagsMismtach, val |-> set, stage |-> "count"]
             ELSE [err |-> NoErr, val |-> set, stage |-> "end"]

scanToNewSlice(rt, slice, dbTagPos, res) ==
    IF ~RowsNext(res, 1)
    THEN [err |-> RowsErr(res), val |-> slice, stage |-> "norows"]
    ELSE LET loop == NewLoop(rt, dbTagPos, res, <<>>, 0)
             set == SliceVal(FALSE, loop.elems)
         IN  IF loop.err # NoErr THEN [err |-> loop.err, val |-> slice, stage |-> loop.stage]
             ELSE IF RowsErr(res) # NoErr THEN [err |-> RowsErr(res), val |-> set, stage |-> "err"]
             ELSE IF Cardinality(DOMAIN dbTagPos) # Len(res.cols)
                  THEN [err |-> ErrQueryColumnsTagsMismtach, val |-> set, stage |-> "count"]
             ELSE [err |-> NoErr, val |-> set, stage |-> "end"]

\* the part of Rows after the tags are resolved; rv.Elem().Len() panics on the
\* zero Value that Elem gives for a nil pointer
RowsScanInto(rt, dbTagPos, dest, res) ==
    IF dest.k \notin {"slice", "nilslice"} THEN Outcome(Panic, dest, "len", TRUE, TRUE)
    ELSE IF Len(dest.f) > 0
    THEN LET got == scanToExistingSlice(rt, dest, dbTagPos, res)
         IN  IF got.err # NoErr THEN Outcome(got.err, got.val, got.stage, TRUE, TRUE)
             ELSE IF Cardinality(DOMAIN dbTagPos) # Len(res.cols)
                  THEN Outcome(ErrQueryColumnsTagsMismtach, got.val, "count", TRUE, TRUE)
             ELSE Outcome(NoErr, got.val, got.stage, TRUE, TRUE)
    ELSE LET got == scanToNewSlice(rt, dest, dbTagPos, res)
         IN  Outcome(got.err, got.val, got.stage, TRUE, TRUE)

\* Rows with rows.Close() deferred only once the tags are resolved
Rows_CloseAfterResolution(input, dest, res) ==
    IF input.kind = "Invalid"
    THEN Outcome(Plain("InputInvalid"), dest, "input", TRUE, FALSE)
    ELSE IF input.kind # "Ptr"
    THEN Outcome(Plain("InputNotPointer"), dest, "input", TRUE, FALSE)
    ELSE IF input.elem.kind # "Slice"
    THEN Outcome(Plain("InputNotPointerToSlice"), dest, "input", TRUE, FALSE)
    ELSE IF input.elem.of.kind # "Struct"
    THEN Outcome(Plain("InputNotPointerToSliceOfStruct"), dest, "input", TRUE, FALSE)
    ELSE LET tags == getDBTagPositions(input.elem.of)
         IN  IF tags.err # NoErr THEN Outcome(tags.err, dest, "tags", TRUE, FALSE)
             ELSE RowsScanInto(input.elem.of, tags.map, dest, res)

Rows(input, dest, res) ==
    IF input.kind = "Invalid"
    THEN Outcome(Plain("InputInvalid"), dest, "input", TRUE, TRUE)
    ELSE IF input.kind # "Ptr"
    THEN Outcome(Plain("InputNotPointer"), dest, "input", TRUE, TRUE)
    ELSE IF input.elem.kind # "Slice"
    THEN Outcome(Plain("InputNotPointerToSlice"), dest, "input", TRUE, TRUE)
    ELSE IF input.elem.of.kind # "Struct"
    THEN Outcome(Plain("InputNotPointerToSliceOfStruct"), dest, "input", TRUE, TRUE)
    ELSE LET tags == getDBTagPositions(input.elem.of)
         IN  IF tags.err # NoErr THEN Outcome(tags.err, dest, "tags", TRUE, TRUE)
             ELSE RowsScanInto(input.elem.of, tags.map, dest, res)

(***************************************************************************)
(* Destination types of the calls: the shapes the tests scan into, and the *)
(* nestings the path walk of QueryRow has to deal with.                    *)
(***************************************************************************)
Scalar(name, first, tag) == Field(name, first, FALSE, "Scalar", tag, ScalarType)

PtrScalar(name, first, tag) == Field(name, first, FALSE, "Ptr", tag, ScalarType)

\* time.Time: a struct whose fields are unexported and carry no tag
TimeType == StructType("time.Time", <<Scalar("wall", "lower", ""), Scalar("ext", "lower", "")>>)

\* TestBasicStructQueryRowScan: A string `db:"a"`, B *string `db:"b"`
BasicStruct == StructType("testStruct", <<Scalar("A", "upper", "a"), PtrScalar("B", "upper", "b")>>)

\* TestQueryRowScanDBTagBehaviour: ignored fields and tagged time fields
DBTagStruct ==
    StructType("testStruct",
        <<Scalar("A", "upper", "a"), Scalar("B", "upper", "-"),
          Field("C", "upper", FALSE, "Struct", "b", TimeType),
          Field("F", "upper", FALSE, "Ptr", "-", TimeType)>>)

\* TestPrivateProperty: a string `db:"a"`
PrivateStruct == StructType("testStruct", <<Scalar("a", "lower", "a")>>)

\* an unexported field whose name starts with an underscore
UnderscoreStruct ==
    StructType("testStruct", <<Scalar("_a", "other", "a"), Scalar("B", "upper", "b")>>)

\* TestEmbededStructWithPrivateProperty: embedded A with b string `db:"b"`
EmbeddedPrivateStruct ==
    StructType("testStruct",
        <<Field("A", "upper", TRUE, "Struct", "", StructType("A", <<Scalar("b", "lower", "b")>>))>>)

\* TestPrivateEmbededType: private a, with B string `db:"b"`
PrivateFieldStruct ==
    StructType("testStruct",
        <<Field("private", "lower", FALSE, "Struct", "", StructType("a", <<Scalar("B", "upper", "b")>>))>>)

\* an embedded struct of an unexported type with an exported field
UnexportedEmbeddedStruct ==
    StructType("testStruct",
        <<Field("a", "lower", TRUE, "Struct", "", StructType("a", <<Scalar("B", "upper", "b")>>))>>)

\* TestComplexStructQueryRowScan: a pointer to a nested struct
PointerStruct ==
    StructType("testStruct",
        <<Scalar("A", "upper", "a"),
          Field("P", "upper", FALSE, "Ptr", "", StructType("Inner", <<Scalar("B", "upper", "b")>>))>>)

\* two levels of struct values, and a pointer field beside them
DeepValueStruct ==
    StructType("testStruct",
        <<Field("S", "upper", FALSE, "Struct", "",
              StructType("Outer",
                  <<Scalar("X", "upper", "a"),
                    Field("N", "upper", FALSE, "Struct", "",
                        StructType("Inner", <<Scalar("Z", "upper", "b")>>))>>)),
          PtrScalar("P", "upper", "c")>>)

\* a pointer to a struct inside a struct value
DeepPointerStruct ==
    StructType("testStruct",
        <<Field("S", "upper", FALSE, "Struct", "",
              StructType("Outer",
                  <<Field("Q", "upper", FALSE, "Ptr", "",
                        StructType("Inner", <<Scalar("Z", "upper", "b")>>))>>)),
          Scalar("A", "upper", "a")>>)

\* a scalar field without a tag
UntaggedStruct == StructType("testStruct", <<Scalar("A", "upper", "a"), Scalar("B", "upper", "")>>)

\* the same tag on two fields
DuplicateTagStruct ==
    StructType("testStruct", <<Scalar("A", "upper", "a"), Scalar("B", "upper", "a")>>)

\* tagged and ignored fields whose types are structs with tagged fields
TaggedNestedStruct ==
    StructType("testStruct",
        <<Field("P", "upper", FALSE, "Ptr", "a", StructType("Inner", <<Scalar("B", "upper", "b")>>)),
          Field("D", "upper", FALSE, "Ptr", "-", StructType("Skipped", <<Scalar("C", "upper", "c")>>)),
          Field("S", "upper", FALSE, "Struct", "-", StructType("Skipped", <<Scalar("C", "upper", "c")>>))>>)

\* fields without a tag behind a pointer to a struct, and one after it
NestedUntaggedStruct ==
    StructType("testStruct",
        <<Scalar("A", "upper", "a"),
          Field("P", "upper", FALSE, "Ptr", "",
              StructType("Inner", <<Scalar("B", "upper", "b"), PtrScalar("C", "upper", "")>>)),
          Scalar("D", "upper", "")>>)

\* one exported field
SingleStruct == StructType("testStruct", <<Scalar("A", "upper", "a")>>)

DestTypes ==
    {SingleStruct, BasicStruct, DBTagStruct, PrivateStruct, UnderscoreStruct, EmbeddedPrivateStruct,
     PrivateFieldStruct, UnexportedEmbeddedStruct, PointerStruct, DeepValueStruct,
     DeepPointerStruct, UntaggedStruct, DuplicateTagStruct, TaggedNestedStruct,
     NestedUntaggedStruct}

SliceType(rt) == [kind |-> "Slice", name |-> "slice", fields |-> <<>>, of |-> rt]

\* the names a result column can have; "z" is the tag of no field
Columns == {"a", "b", "z"}

\* a destination whose every pointer is set and whose every scalar holds base
RECURSIVE Filled(_, _)
Filled(t, base) ==
    IF t.kind = "Struct"
    THEN StructVal([i \in 1..Len(t.fields) |-> Filled(t.fields[i].elem, base)])
    ELSE Val(base)

\* rv.Elem() of a nil pointer: the zero Value
InvalidVal == [k |-> "invalid", v |-> 0, f |-> <<>>]

PtrTo(t) == [kind |-> "Ptr", elem |-> t]

\* the value an input that is no pointer to a destination stands for
NoDest == Val(0)

\* the arguments of a call of QueryRow: the input and what it points to
QueryRowArgs ==
    UNION {{[input |-> PtrTo(t), dest |-> d] : d \in {Zero(t), Filled(t, 90)}} : t \in DestTypes}
    \cup {[input |-> [kind |-> "Invalid", elem |-> ScalarType], dest |-> NoDest],
          [input |-> [kind |-> "Struct", elem |-> BasicStruct], dest |-> NoDest],
          [input |-> PtrTo(ScalarType), dest |-> NoDest],
          [input |-> PtrTo(BasicStruct), dest |-> InvalidVal]}

\* the slices a call of Rows is given: nil, empty, or n elements
SlicesOf(t) ==
    {SliceVal(TRUE, <<>>), SliceVal(FALSE, <<>>)}
    \cup {SliceVal(FALSE, [i \in 1..n |-> Zero(t)]) : n \in 1..MaxLen}
    \cup {SliceVal(FALSE, [i \in 1..n |-> Filled(t, 90 + i)]) : n \in 1..MaxLen}

RowsArgs ==
    UNION {{[input |-> PtrTo(SliceType(t)), dest |-> d] : d \in SlicesOf(t)} : t \in DestTypes}
    \cup {[input |-> [kind |-> "Invalid", elem |-> ScalarType], dest |-> NoDest],
          [input |-> [kind |-> "Slice", elem |-> BasicStruct], dest |-> NoDest],
          [input |-> PtrTo(BasicStruct), dest |-> NoDest],
          [input |-> PtrTo(SliceType(ScalarType)), dest |-> NoDest],
          [input |-> PtrTo(SliceType(BasicStruct)), dest |-> InvalidVal]}

Results ==
    {r \in [cols : UNION {[1..n -> Columns] : n \in 0..MaxCols},
            nrows : 0..MaxRows, iterFail : -1..MaxRows,
            scanRow : 0..MaxRows, scanCol : 0..MaxCols, queryErr : BOOLEAN] :
        /\ r.iterFail <= r.nrows
        /\ r.scanRow <= r.nrows
        /\ (r.scanRow = 0) = (r.scanCol = 0)
        /\ r.scanCol <= Len(r.cols)
        /\ r.scanRow > 0 => r.iterFail = -1
        /\ r.queryErr => r.nrows = 0 /\ r.cols = <<>> /\ r.iterFail = -1}

(***************************************************************************)
(* The state machine: a caller holds a destination and a result and makes  *)
(* one call; the call runs to its return.                                  *)
(***************************************************************************)
VARIABLES pc, op, input, res, dest0, dest, out

vars == <<pc, op, input, res, dest0, dest, out>>

NotCalled == Outcome(NoErr, NoDest, "none", FALSE, FALSE)

Init ==
    /\ pc = "call"
    /\ op \in {"QueryRow", "Rows"}
    /\ res \in Results
    /\ op = "Rows" => ~res.queryErr
    /\ \E a \in IF op = "QueryRow" THEN QueryRowArgs ELSE RowsArgs :
          /\ input = a.input
          /\ dest0 = a.dest
          /\ dest = a.dest
    /\ out = NotCalled

CallQueryRow ==
    /\ pc = "call"
    /\ op = "QueryRow"
    /\ out' = QueryRow(input, dest, res)
    /\ dest' = out'.dest
    /\ pc' = "returned"
    /\ UNCHANGED <<op, input, res, dest0>>

CallRows ==
    /\ pc = "call"
    /\ op = "Rows"
    /\ out' = Rows(input, dest, res)
    /\ dest' = out'.dest
    /\ pc' = "returned"
    /\ UNCHANGED <<op, input, res, dest0>>

Next == CallQueryRow \/ CallRows

Spec == Init /\ [][Next]_vars

(***************************************************************************)
(* Vocabulary of the properties.                                           *)
(***************************************************************************)
Returned(o) == pc = "returned" /\ op = o

\* the call was given a non-nil pointer to a struct (QueryRow) or to a slice
\* of structs (Rows)
GoodQueryRowInput == input.kind = "Ptr" /\ input.elem.kind = "Struct" /\ dest0.k = "struct"

GoodRowsInput ==
    /\ input.kind = "Ptr"
    /\ input.elem.kind = "Slice"
    /\ input.elem.of.kind = "Struct"
    /\ dest0.k \in {"slice", "nilslice"}

\* the record type of the destination and its Tag Position Map
DestType == IF input.elem.kind = "Slice" THEN input.elem.of ELSE input.elem

Resolved == getDBTagPositions(DestType)

TagMap == Resolved.map

Tags == DOMAIN TagMap

ColumnSet == {res.cols[c] : c \in 1..Len(res.cols)}

DuplicateFree == \A c, d \in 1..Len(res.cols) : res.cols[c] = res.cols[d] => c = d

\* column c is the last one of its name: its value is the one that stays
LastOfName(c) == \A d \in (c + 1)..Len(res.cols) : res.cols[d] # res.cols[c]

UnknownColumns == {c \in 1..Len(res.cols) : res.cols[c] \notin Tags}

\* QueryRow: the first row was read and its columns were looked at
ReadFirstRow == out.stage \notin {"none", "input", "tags", "query", "norows", "len"}

\* the columns were bound and the driver's Scan of the first row returned nil
ScanSucceeded == ReadFirstRow /\ out.stage \notin {"bind", "scan"}

Absent == [k |-> "absent", v |-> 0, f |-> <<>>]

\* what a caller finds at a field path: Absent behind a nil pointer
RECURSIVE LeafAt(_, _)
LeafAt(v, path) ==
    IF path = <<>> THEN v
    ELSE IF v.k # "struct" THEN Absent
    ELSE LeafAt(v.f[path[1] + 1], Tail(path))

ZeroLeaf(rt, path) ==
    LET field == TypeFieldByIndex(rt, path)
    IN  IF field.kind = "Ptr" THEN Nil ELSE Zero(field.elem)

\* the field at path has after the call the value it had before it (a field
\* that came into being with a newly allocated record holds its zero value)
Keeps(rt, before, after, path) ==
    \/ LeafAt(after, path) = LeafAt(before, path)
    \/ LeafAt(before, path) = Absent /\ LeafAt(after, path) = ZeroLeaf(rt, path)

\* the element holds, in the field of every matched column, the value of row r
HoldsRow(elem, r) ==
    \A c \in 1..Len(res.cols) :
        (res.cols[c] \in Tags /\ LastOfName(c)) => LeafAt(elem, TagMap[res.cols[c]]) = Val(Cell(r, c))

(***************************************************************************)
(* C1.  QueryRow of a query that yields exactly one row whose column names *)
(* are a duplicate-free subset S of the resolved tags, all leaf fields     *)
(* settable and the driver scan succeeding: every field whose tag is in S  *)
(* holds its column's value, every field whose tag is not in S keeps the   *)
(* value it had, and the error is nil when S is the full tag set and       *)
(* ErrQueryColumnsTagsMismtach when S is a strict subset.                  *)
(***************************************************************************)
C1_Case ==
    /\ Returned("QueryRow") /\ GoodQueryRowInput /\ Resolved.err = NoErr
    /\ ~res.queryErr /\ res.nrows = 1 /\ res.iterFail = -1
    /\ DuplicateFree /\ ColumnSet \subseteq Tags
    /\ \A t \in Tags : CanInterface(DestType, TagMap[t])
    /\ ScanSucceeded

C1_SubsetScan ==
    C1_Case =>
        /\ HoldsRow(dest, 1)
        /\ \A t \in Tags \ ColumnSet : Keeps(DestType, dest0, dest, TagMap[t])
        /\ out.err = IF ColumnSet = Tags THEN NoErr ELSE ErrQueryColumnsTagsMismtach

\* C1 reached: a strict subset of the tags scanned into a destination that held
\* values, leaving the sentinel
C1_Witness ==
    /\ C1_Case /\ DestType = BasicStruct /\ dest0 = Filled(BasicStruct, 90)
    /\ res.cols = <<"b">> /\ out.err = ErrQueryColumnsTagsMismtach

(***************************************************************************)
(* C2.  QueryRow of a one-row result in which at least one column name is  *)
(* absent from the Tag Position Map, scanning succeeding: the returned     *)
(* error is an ErrQueryReturnedExtraColumns whose Columns are exactly the  *)
(* unmatched column names in result-column order and whose ValueType is    *)
(* the destination's type name; every matched column's field is populated; *)
(* this holds also when the column count differs from the tag count.       *)
(***************************************************************************)
C2_Case ==
    /\ Returned("QueryRow") /\ GoodQueryRowInput /\ Resolved.err = NoErr
    /\ ~res.queryErr /\ res.nrows = 1 /\ res.iterFail = -1
    /\ UnknownColumns # {}
    /\ ScanSucceeded

C2_ExtraColumns ==
    C2_Case =>
        /\ out.err.kind = "ExtraColumns"
        /\ out.err.cols = SelectSeq(res.cols, LAMBDA n : n \notin Tags)
        /\ out.err.vtype = <<"*", DestType.name>>
        /\ HoldsRow(dest, 1)

\* C2 reached: an unmatched column before a matched one, the counts differing
C2_Witness ==
    /\ C2_Case /\ Len(res.cols) = 2 /\ Cardinality(Tags) # 2
    /\ res.cols[1] \notin Tags /\ res.cols[2] \in Tags
    /\ LeafAt(dest, TagMap[res.cols[2]]) # LeafAt(dest0, TagMap[res.cols[2]])

(***************************************************************************)
(* C3.  QueryRow of a query producing two or more rows fails with the      *)
(* "more than one row" error whatever the columns are: that error comes    *)
(* before ExtraColumns, ColumnTagMismatch and success.                     *)
(***************************************************************************)
C3_Case ==
    /\ Returned("QueryRow") /\ GoodQueryRowInput /\ Resolved.err = NoErr
    /\ ~res.queryErr /\ Delivered(res) >= 2

\* C3 as claimed: it yields only to a failure of the driver scan of the first row
\* (stated for the calls that end by returning)
C3_OnlyScanFailureFirst ==
    (C3_Case /\ ~ScanFails(res, 1) /\ out.err # Panic) => out.err = ErrMoreThanOneRow

\* C3 as amended: it yields to a failure while the columns of the first row are
\* bound to the fields, and to a failure of the driver scan of the first row
C3_MoreThanOneRow ==
    C3_Case =>
        /\ ScanSucceeded => out.err = ErrMoreThanOneRow
        /\ out.stage = "scan" => ScanFails(res, 1) /\ out.err = Plain("ScanError")
        /\ out.stage = "bind" =>
               out.err.kind \in {"UnexportedProperty", "NoInterface", "NoAddress", "panic"}
        /\ ReadFirstRow

\* C3 reached: two rows with an unmatched column and a count that differs
C3_Witness ==
    /\ C3_Case /\ out.err = ErrMoreThanOneRow
    /\ UnknownColumns # {} /\ Len(res.cols) # Cardinality(Tags)

(***************************************************************************)
(* C4.  QueryRow of a query that yields zero rows returns the iteration    *)
(* error if the result reports one and pgx.ErrNoRows otherwise; no column  *)
(* is inspected, no pointer is allocated, the destination is as before.    *)
(***************************************************************************)
C4_Case ==
    /\ Returned("QueryRow") /\ GoodQueryRowInput /\ Resolved.err = NoErr
    /\ ~res.queryErr /\ Delivered(res) = 0

C4_NoRows ==
    C4_Case =>
        /\ out.err = IF res.iterFail = 0 THEN Plain("IterationError") ELSE ErrNoRows
        /\ out.stage = "norows"
        /\ dest = dest0

\* C4 reached: an iteration error before the first row, the result declaring a
\* column whose path runs through a nil pointer
C4_Witness ==
    /\ C4_Case /\ res.iterFail = 0 /\ DestType = PointerStruct
    /\ dest0 = Zero(PointerStruct) /\ "b" \in ColumnSet

(***************************************************************************)
(* C5.  QueryRow, when a returned column resolves to a leaf field that is  *)
(* not settable because it is unexported (declared in the destination type *)
(* or in an exported embedded record), fails with ErrUnexportedProperty    *)
(* naming that field, while binding the columns: no field receives a       *)
(* scanned value.                                                          *)
(***************************************************************************)
\* the columns that resolve to such a field
C5_Columns ==
    {c \in 1..Len(res.cols) :
        /\ res.cols[c] \in Tags
        /\ LET path == TagMap[res.cols[c]]
               outer == DestType.fields[path[1] + 1]
           IN  /\ ~IsExported(TypeFieldByIndex(DestType, path))
               /\ \/ Len(path) = 1
                  \/ /\ Len(path) = 2 /\ outer.kind = "Struct"
                     /\ outer.embedded /\ IsExported(outer)}

C5_Case ==
    /\ Returned("QueryRow") /\ GoodQueryRowInput /\ Resolved.err = NoErr
    /\ ~res.queryErr /\ Delivered(res) >= 1
    /\ C5_Columns # {}

C5_UnexportedProperty ==
    (C5_Case /\ out.err # Panic) =>
        LET c == CHOOSE x \in C5_Columns : \A y \in C5_Columns : x <= y
            field == TypeFieldByIndex(DestType, TagMap[res.cols[c]])
        IN  /\ out.err = ErrUnexportedProperty(field.name)
            /\ out.stage = "bind"
            /\ \A t \in Tags : Keeps(DestType, dest0, dest, TagMap[t])

(***************************************************************************)
(* C6.  Rows with an empty destination on a result that yields zero rows   *)
(* and no iteration error returns no error and leaves the destination      *)
(* untouched (not even reset to a new empty slice), whatever columns the   *)
(* result declares.                                                        *)
(***************************************************************************)
C6_Case ==
    /\ Returned("Rows") /\ GoodRowsInput /\ Resolved.err = NoErr
    /\ Len(dest0.f) = 0 /\ Delivered(res) = 0 /\ res.iterFail = -1

C7_Case ==
    /\ Returned("Rows") /\ GoodRowsInput /\ Resolved.err = NoErr
    /\ out.err \in {NoErr, ErrQueryColumnsTagsMismtach}

C7_CountCompared ==
    C7_Case => (out.err = NoErr <=> Cardinality(Tags) = Len(res.cols))

(***************************************************************************)
(* C8.  Rows in append mode: when it returns, the destination is either in *)
(* its original empty state or holds exactly one element per row of the    *)
(* complete result, in row order; never only part of the rows.             *)
(***************************************************************************)
C8_Case ==
    /\ Returned("Rows") /\ GoodRowsInput /\ Resolved.err = NoErr
    /\ Len(dest0.f) = 0

C8_AllOrNothing ==
    C8_Case =>
        \/ dest = dest0
        \/ /\ Len(dest.f) = res.nrows
           /\ \A i \in 1..res.nrows : HoldsRow(dest.f[i], i)

(***************************************************************************)
(* C9.  Rows in reuse mode (destination length n > 0): the length stays n; *)
(* the elements after the rows the result yields are left unchanged; when  *)
(* the columns bind and the scans succeed, more than n rows end in the     *)
(* "more rows that slice length" error, and k <= n rows overwrite element  *)
(* i from row i for every i < k.                                           *)
(***************************************************************************)
C9_Case ==
    /\ Returned("Rows") /\ GoodRowsInput /\ Resolved.err = NoErr
    /\ Len(dest0.f) > 0

C9_Reuse ==
    C9_Case =>
        LET n == Len(dest0.f)
            k == Delivered(res)
        IN  /\ Len(dest.f) = n
            /\ \A i \in 1..n : i > k => dest.f[i] = dest0.f[i]
            /\ out.stage \notin {"bind", "scan"} =>
                  /\ k > n => out.err = ErrMoreRowsThanSlice
                  /\ k <= n => /\ out.err # ErrMoreRowsThanSlice
                               /\ \A i \in 1..k : HoldsRow(dest.f[i], i)

\* C9 reached: one row scanned into the first of two elements that held values
C9_Witness ==
    /\ C9_Case /\ Len(dest0.f) = 2 /\ Delivered(res) = 1
    /\ out.stage \notin {"bind", "scan"}
    /\ dest.f[1] # dest0.f[1] /\ dest.f[2] = Filled(DestType, 92)

(***************************************************************************)
(* C10.  A column whose name is absent from the Tag Position Map is fatal  *)
(* in Rows, in reuse mode and in append mode: Rows returns an error naming *)
(* the column, never nil or ErrQueryColumnsTagsMismtach.                   *)
(***************************************************************************)
C10_Case ==
    /\ Returned("Rows") /\ GoodRowsInput /\ Resolved.err = NoErr
    /\ UnknownColumns # {}

FirstUnknown == CHOOSE c \in UnknownColumns : \A d \in UnknownColumns : c <= d

\* the element the first row is scanned into
FirstElement == IF Len(dest0.f) > 0 THEN dest0.f[1] ELSE Zero(DestType)

\* C10 as claimed: for any number of rows (stated for the calls that end by
\* returning)
C10_AnyRowCount ==
    (C10_Case /\ out.err # Panic) =>
        /\ out.err.kind = "ColumnMissingFromStruct"
        /\ out.err.name \in {res.cols[c] : c \in UnknownColumns}

\* C10 as amended: once a first row is read; the error names the first such column
\* unless the binding of a column before it has failed; with no row read the
\* columns are not looked at
C10_UnknownColumnFatal ==
    C10_Case =>
        /\ Delivered(res) >= 1 =>
              /\ out.stage = "bind"
              /\ out.err \notin {NoErr, ErrQueryColumnsTagsMismtach}
              /\ (\A c \in 1..(FirstUnknown - 1) :
                      /\ FieldByIndexOK(FirstElement, TagMap[res.cols[c]])
                      /\ CanInterface(DestType, TagMap[res.cols[c]]))
                   => out.err = ErrMissingColumn(res.cols[FirstUnknown])
        /\ Delivered(res) = 0 =>
              /\ out.err.kind \in {"nil", "ColumnsTagsMismatch", "IterationError"}
              /\ dest = dest0

\* C10 reached: reuse mode, two rows, the unmatched column after a matched one
C10_Witness ==
    /\ C10_Case /\ Len(dest0.f) > 0 /\ Delivered(res) = 2 /\ FirstUnknown = 2
    /\ out.err = ErrMissingColumn(res.cols[2])

(***************************************************************************)
(* C11.  Every result is released on every exit path: Rows releases the    *)
(* result it is given on every return, those of the input validation and   *)
(* of the tag resolution included; QueryRow releases the result of its     *)
(* query on every return after the query was executed without error; no    *)
(* call ends with an acquired result that is not released.                 *)
(***************************************************************************)
\* QueryRow got as far as tx.Query and the query returned no error
QueryExecuted ==
    /\ op = "QueryRow" /\ input.kind = "Ptr" /\ input.elem.kind = "Struct"
    /\ Resolved.err = NoErr /\ ~res.queryErr

C11_Released ==
    pc = "returned" =>
        /\ out.acquired => out.closed
        /\ op = "Rows" => out.acquired /\ out.closed
        /\ QueryExecuted => out.acquired /\ out.closed

\* C11 reached: Rows given a result with rows ends in the tag resolution, before
\* any row is read, and the result is released
C11_Witness ==
    /\ Returned("Rows") /\ out.stage = "tags" /\ out.err.kind = "UnsetTag"
    /\ res.nrows > 0 /\ out.closed

(***************************************************************************)
(* C12.  QueryRow returns an input error whenever its destination is       *)
(* absent (a nil pointer of the right type included), is no pointer, or    *)
(* points to something that is no struct, and has then not executed the    *)
(* query; Rows returns an input error whenever its destination is absent   *)
(* (a nil pointer to a slice included), is no pointer, or does not point   *)
(* to a slice of structs.  The failure is a returned error value.          *)
(***************************************************************************)
InputErrors ==
    {"InputInvalid", "InputNotPointer", "InputNotPointerToStruct",
     "InputNotPointerToSlice", "InputNotPointerToSliceOfStruct"}

\* the input is a typed pointer whose value is nil
NilPointer == input.kind = "Ptr" /\ dest0 = InvalidVal

C12_Case ==
    /\ pc = "returned"
    /\ \/ op = "QueryRow" /\ ~GoodQueryRowInput
       \/ op = "Rows" /\ ~GoodRowsInput

C12_InvalidInput ==
    C12_Case =>
        /\ out.err.kind \in InputErrors
        /\ out.stage = "input"
        /\ ~out.acquired \/ op = "Rows"
        /\ dest = dest0

(***************************************************************************)
(* C13.  In getDBTagPositions an explicit tag takes precedence over the    *)
(* recursion: a field of any kind tagged "-" contributes no entry to the   *)
(* map; a struct or pointer-to-struct field with any other explicit tag    *)
(* contributes exactly one entry, tag -> [own position], and none of its   *)
(* members' tags; only an untagged struct or pointer-to-struct field is    *)
(* recursed into, each member path being prefixed with the field's         *)
(* position.  (An entry is replaced when a later field registers the same  *)
(* tag.)                                                                   *)
(***************************************************************************)
\* the struct types met in t: t itself and the struct types of its fields
RECURSIVE StructTypesIn(_)
StructTypesIn(t) ==
    IF t.kind # "Struct" THEN {}
    ELSE {t} \cup UNION {StructTypesIn(t.fields[i].elem) : i \in 1..Len(t.fields)}

IsRecord(field) == field.kind = "Struct" \/ (field.kind = "Ptr" /\ field.elem.kind = "Struct")

\* the tags whose path in the map m starts at field i
Through(m, i) == {x \in DOMAIN m : m[x][1] = i}

\* the map m holds for tag x the given path, or one registered by a later field
HoldsOrLater(m, x, i, path) == x \in DOMAIN m /\ (m[x] = path \/ m[x][1] > i)

C13_TagPrecedence ==
    (pc = "returned" /\ out.stage # "input") =>
        \A t \in StructTypesIn(DestType) :
            LET r == getDBTagPositions(t)
                m == r.map
            IN  r.err = NoErr =>
                    /\ \A i \in 0..(Len(t.fields) - 1) :
                          LET field == t.fields[i + 1]
                              nested == getDBTagPositions(field.elem).map
                          IN  /\ field.tag = "-" => Through(m, i) = {}
                              /\ (IsRecord(field) /\ field.tag \notin {"", "-"}) =>
                                    /\ Through(m, i) \subseteq {field.tag}
                                    /\ HoldsOrLater(m, field.tag, i, <<i>>)
                              /\ (IsRecord(field) /\ field.tag = "") =>
                                    /\ Through(m, i) \subseteq DOMAIN nested
                                    /\ \A x \in DOMAIN nested :
                                          HoldsOrLater(m, x, i, <<i>> \o nested[x])
                    /\ \A x \in DOMAIN m :
                          Len(m[x]) > 1 =>
                              /\ IsRecord(t.fields[m[x][1] + 1])
                              /\ t.fields[m[x][1] + 1].tag = ""

\* C13 reached: a call resolved the tags of a type with a tagged pointer to a
\* struct and ignored struct fields, all with tagged members
C13_Witness ==
    /\ pc = "returned" /\ out.stage \notin {"input", "tags"}
    /\ DestType = TaggedNestedStruct
    /\ Tags = {"a"} /\ TagMap["a"] = <<0>>

(***************************************************************************)
(* C14.  If a scalar or pointer-to-non-struct field that is reachable from *)
(* the destination type through untagged struct / pointer-to-struct fields *)
(* (at any depth) carries no tag, the tag resolution fails with the        *)
(* missing-tag error of the first such field in declaration order and      *)
(* returns no map; QueryRow and Rows return that error unchanged, QueryRow *)
(* without executing the query, and the destination is not modified.       *)
(***************************************************************************)
\* the leaf fields of t reachable through untagged struct and pointer-to-struct
\* fields, in declaration order, from field i (from 0) on: the struct that
\* declares the field, its position there and its tag
RECURSIVE ReachableLeaves(_, _)
ReachableLeaves(t, i) ==
    IF i >= Len(t.fields) THEN <<>>
    ELSE LET field == t.fields[i + 1]
             here == IF ~IsRecord(field) THEN <<[owner |-> t.name, pos |-> i, tag |-> field.tag]>>
                     ELSE IF field.tag = "" THEN ReachableLeaves(field.elem, 0)
                     ELSE <<>>
         IN  here \o ReachableLeaves(t, i + 1)

UntaggedLeaves == SelectSeq(ReachableLeaves(DestType, 0), LAMBDA l : l.tag = "")

\* the call was given a pointer to a struct (QueryRow) or to a slice of structs
\* (Rows), whatever its value
C14_Case ==
    /\ pc = "returned" /\ input.kind = "Ptr"
    /\ \/ op = "QueryRow" /\ input.elem.kind = "Struct"
       \/ op = "Rows" /\ input.elem.kind = "Slice" /\ input.elem.of.kind = "Struct"
    /\ UntaggedLeaves # <<>>

C14_MissingTag ==
    C14_Case =>
        LET first == Head(UntaggedLeaves)
        IN  /\ Resolved.err = ErrUnsetTag(first.pos, first.owner)
            /\ Resolved.map = EmptyMap
            /\ out.err = Resolved.err
            /\ out.stage = "tags"
            /\ op = "QueryRow" => ~out.acquired
            /\ dest = dest0

\* C14 reached: QueryRow on a type whose first untagged field lies behind an
\* untagged pointer to a struct, an untagged field of the root following it
C14_Witness ==
    /\ C14_Case /\ op = "QueryRow" /\ DestType = NestedUntaggedStruct
    /\ Len(UntaggedLeaves) = 2 /\ out.err = ErrUnsetTag(1, "Inner")
    /\ res.nrows = 1 /\ "a" \in ColumnSet

(***************************************************************************)
(* C15.  In QueryRow, for every matched column whose field path is longer  *)
(* than one, the path walk inspects the field found at each intermediate   *)
(* position of the path from the destination's root, for any mix of struct *)
(* values and pointers to structs on the way: every pointer on the path    *)
(* that is nil is allocated, every one that is set is kept, no pointer     *)
(* that lies on no returned column's path is allocated, and the leaf is    *)
(* then addressed without failure.                                         *)
(***************************************************************************)
\* the paths of the pointer fields of t, those behind pointers to structs and
\* inside struct values included
RECURSIVE PointerPaths(_, _)
PointerPaths(t, prefix) ==
    UNION {LET field == t.fields[i]
               path == Append(prefix, i - 1)
           IN  (IF field.kind = "Ptr" THEN {path} ELSE {})
               \cup (IF field.elem.kind = "Struct" THEN PointerPaths(field.elem, path) ELSE {})
           : i \in 1..Len(t.fields)}

IsPrefix(p, q) == Len(p) <= Len(q) /\ SubSeq(q, 1, Len(p)) = p

\* the paths of the returned columns that match a tag
MatchedPaths == {TagMap[res.cols[c]] : c \in (1..Len(res.cols)) \ UnknownColumns}

IsAbsent(x) == x \in {Nil, Absent}

C15_Case ==
    /\ Returned("QueryRow") /\ GoodQueryRowInput /\ Resolved.err = NoErr
    /\ ~res.queryErr /\ Delivered(res) >= 1
    /\ \E q \in MatchedPaths : Len(q) > 1

C15_PathWalk ==
    C15_Case =>
        /\ out.err \notin {Panic, ErrNoAddr}
        /\ \A p \in PointerPaths(DestType, <<>>) :
              /\ ~IsAbsent(LeafAt(dest0, p)) => ~IsAbsent(LeafAt(dest, p))
              /\ (IsAbsent(LeafAt(dest0, p)) /\ \A q \in MatchedPaths : ~IsPrefix(p, q))
                    => IsAbsent(LeafAt(dest, p))
              /\ (ScanSucceeded /\ \E q \in MatchedPaths : IsPrefix(p, q) /\ p # q)
                    => ~IsAbsent(LeafAt(dest, p))

(***************************************************************************)
(* C16.  Whenever QueryRow or Rows returns ErrQueryColumnsTagsMismtach,    *)
(* the destination type declares strictly more tags than the query         *)
(* returned columns ("query returned less columns than DB tags on          *)
(* struct"), every returned column matched a tag, and the sentinel is      *)
(* returned only after all rows were processed with no failure of higher   *)
(* priority.                                                               *)
(***************************************************************************)
C16_Case ==
    /\ pc = "returned"
    /\ \/ op = "QueryRow" /\ GoodQueryRowInput
       \/ op = "Rows" /\ GoodRowsInput
    /\ out.err = ErrQueryColumnsTagsMismtach

C16_SentinelMeaning ==
    C16_Case =>
        /\ Cardinality(Tags) > Len(res.cols)
        /\ UnknownColumns = {}
        /\ out.stage = "count"
        /\ res.iterFail = -1 /\ res.scanRow = 0
        /\ op = "QueryRow" => res.nrows = 1
        /\ op = "Rows" => Len(dest.f) >= res.nrows

(***************************************************************************)
(* C17.  Every failure of Rows is a returned error value: in reuse and in  *)
(* append mode, when a returned column's field path passes through a       *)
(* pointer to a struct that is nil in the element being filled (always so  *)
(* for the zero elements built in append mode), the call ends by returning *)
(* an internal addressing error, not abnormally, and the result is         *)
(* released.                                                               *)
(***************************************************************************)
\* the path runs through a nil pointer of the element
ThroughNil(elem, path) ==
    \E n \in 1..(Len(path) - 1) : LeafAt(elem, SubSeq(path, 1, n)) = Nil

\* the first row is read, and a column of it runs through a nil pointer of the
\* first element, the columns before it binding to fields
C17_Columns ==
    {c \in 1..Len(res.cols) :
        /\ \A d \in 1..c : res.cols[d] \in Tags /\ CanInterface(DestType, TagMap[res.cols[d]])
        /\ ThroughNil(FirstElement, TagMap[res.cols[c]])}

C17_Case ==
    /\ Returned("Rows") /\ GoodRowsInput /\ Resolved.err = NoErr
    /\ Delivered(res) >= 1
    /\ C17_Columns # {}

C17_ReturnedError ==
    C17_Case => out.err # Panic /\ out.err = ErrNoAddr /\ out.closed

====
